---- MODULE Spec2Model ----
(***************************************************************************)
(* Telemetry ingestion pipeline of backend-energy: the MQTT "message"      *)
(* handler of each server variant in the repository, the Mongoose document *)
(* built from the payload, and the storage write that follows; and the     *)
(* HTTP routes over the same collection: POST /energy, GET /energy,        *)
(* GET /energy/all and POST /chatbot.                                      *)
(*                                                                         *)
(* Variants (one deployment runs exactly one of them):                     *)
(*   "server"    src/server.js          (same handler in part_001/part_004)*)
(*   "part_000"  src/unnamed/part_000   (no derivation, promise chain)     *)
(*   "part_000b" src/unnamed/part_000   (the second server file it holds,  *)
(*                                       from line 143 on)                 *)
(*   "part_002"  src/unnamed/part_002   (timestamp validated before use)   *)
(*   "part_003"  src/unnamed/part_003   (fields copied one by one, no      *)
(*                                       HTTP route)                       *)
(***************************************************************************)
EXTENDS Integers, Sequences, FiniteSets, TLC

VARIABLES variant, now, msgs, store, escaped, posts, resp, mqtt

vars == <<variant, now, msgs, store, escaped, posts, resp, mqtt>>

(* ------------------------------ bounds --------------------------------- *)

\* messages delivered by the broker in one run
MaxMsgs == 2

\* first clock reading of a run (milliseconds since the epoch, scaled down)
StartClock == 2

\* number of clock ticks a run may see after StartClock
ClockSpan == 1

MaxClock == StartClock + ClockSpan

\* a device timestamp ahead of every clock reading of the run
Future == MaxClock + 1

\* a device timestamp behind every clock reading of the run
Past == StartClock - 1

(* --------------------------- JavaScript values -------------------------- *)

\* every value is a record [k, v]: k the kind, v the number it carries
Undefined == [k |-> "undefined", v |-> 0]

Null == [k |-> "null", v |-> 0]

NaN == [k |-> "nan", v |-> 0]

Num(n) == [k |-> "num", v |-> n]

\* a string that is neither a number nor a date ("abc")
NaS == [k |-> "str", v |-> 0]

\* a string in ISO-8601 form that Date.parse maps to the instant t
Iso(t) == [k |-> "iso", v |-> t]

\* a valid Date object for the instant t
DateV(t) == [k |-> "date", v |-> t]

\* x ?? d
Coalesce(x, d) == IF x.k \in {"undefined", "null"} THEN d ELSE x

\* ToNumber, as applied by the operators * and -
ToNumber(x) ==
  CASE x.k = "num" -> x
    [] x.k = "null" -> Num(0)
    [] x.k = "date" -> Num(x.v)
    [] OTHER -> NaN

\* a * b
Mul(a, b) ==
  LET x == ToNumber(a)
      y == ToNumber(b)
  IN IF x.k = "nan" \/ y.k = "nan" THEN NaN ELSE Num(x.v * y.v)

\* a - b
Sub(a, b) ==
  LET x == ToNumber(a)
      y == ToNumber(b)
  IN IF x.k = "nan" \/ y.k = "nan" THEN NaN ELSE Num(x.v - y.v)

\* new Date(x).getTime(): NaN for an Invalid Date
GetTime(x) ==
  CASE x.k = "num" -> Num(x.v)
    [] x.k = "iso" -> Num(x.v)
    [] x.k = "date" -> Num(x.v)
    [] x.k = "null" -> Num(0)
    [] OTHER -> NaN

(* ------------------------- Mongoose schema and casts -------------------- *)

\* keys a payload or a document may carry: the schema's paths, Mongoose's
\* own _id path, and "note", a key no schema declares
Keys == {"sct013", "voltage", "gasDetected", "puissance", "delayMs",
         "timestamp", "_id", "note"}

\* the sensor fields of a sample (three of the nine the schema declares)
SensorKeys == {"sct013", "voltage", "gasDetected"}

Variants == {"server", "part_000", "part_002", "part_003"}

\* paths of EnergySchema; part_000 declares neither puissance nor delayMs.
\* Mongoose adds the _id path to every schema.
EnergySchema(v) ==
  IF v = "part_000"
  THEN SensorKeys \cup {"timestamp", "_id"}
  ELSE SensorKeys \cup {"puissance", "delayMs", "timestamp", "_id"}

\* SchemaType of a path
PathType(p) ==
  CASE p = "timestamp" -> "Date"
    [] p = "_id" -> "ObjectId"
    [] OTHER -> "Number"

\* Mongoose's cast of a value to Number: NaN and non-numeric strings fail
CastNumber(x) ==
  IF x.k \in {"undefined", "null", "num"}
  THEN [ok |-> TRUE, val |-> x]
  ELSE [ok |-> FALSE, val |-> Undefined]

\* Mongoose's cast of a value to Date: an Invalid Date fails
CastDate(x) ==
  CASE x.k \in {"undefined", "null", "date"} -> [ok |-> TRUE, val |-> x]
    [] x.k \in {"num", "iso"} -> [ok |-> TRUE, val |-> DateV(x.v)]
    [] OTHER -> [ok |-> FALSE, val |-> Undefined]

\* Mongoose's cast of a value to ObjectId: an absent _id is generated by the
\* document, no other value of the model is a 24-digit hex string
CastObjectId(x) ==
  IF x.k = "undefined"
  THEN [ok |-> TRUE, val |-> x]
  ELSE [ok |-> FALSE, val |-> Undefined]

Cast(p, x) ==
  CASE PathType(p) = "Date" -> CastDate(x)
    [] PathType(p) = "ObjectId" -> CastObjectId(x)
    [] OTHER -> CastNumber(x)

\* strict mode (Mongoose's default): a key that is no path of the schema is
\* not set on the document
StrictPaths(v) == EnergySchema(v)

\* the object with no own property
EmptyObj == [p \in Keys |-> Undefined]

\* new EnergyModel(obj) at clock reading t: every path of the schema is cast,
\* a failed cast is recorded in errors, the timestamp default (Date.now) is
\* applied when obj sets none
NewEnergyModel(v, obj, t) ==
  LET set(p) == IF p \in StrictPaths(v) THEN Cast(p, obj[p])
                ELSE [ok |-> TRUE, val |-> Undefined]
      val(p) == IF p = "timestamp" /\ p \in EnergySchema(v) /\ obj[p].k = "undefined"
                THEN DateV(t)
                ELSE set(p).val
  IN [fields |-> [p \in Keys |-> val(p)],
      errors |-> {p \in Keys : ~set(p).ok}]

\* save({ validateBeforeSave: false })
ValidationSkipped(doc) == TRUE

\* validation run by save() before any write is sent to the database
ValidateBeforeSave(doc) == doc.errors = {}

(* ------------------------------ payloads -------------------------------- *)

\* a message is what JSON.parse makes of its bytes: "malformed" bytes are no
\* JSON text, "null" is the JSON text null, "primitive" a JSON number, string
\* or boolean, "object" a JSON object with the given own properties
Msg(kind, fields) == [kind |-> kind, fields |-> fields]

Obj(sct013, voltage, timestamp, id, note) ==
  [p \in Keys |->
     CASE p = "sct013" -> sct013
       [] p = "voltage" -> voltage
       [] p = "timestamp" -> timestamp
       [] p = "_id" -> id
       [] p = "note" -> note
       [] OTHER -> Undefined]

\* sensor readings in every combination, with and without a device timestamp
SensorObjs ==
  {Obj(s, u, t, Undefined, Undefined) :
     s \in {Undefined, Null, Num(2)},
     u \in {Undefined, Num(3), NaS},
     t \in {Undefined, Num(Past)}}

\* every shape of the timestamp field, on a complete reading
TimestampObjs ==
  {Obj(Num(2), Num(3), t, Undefined, Undefined) :
     t \in {Undefined, Null, Num(Past), Iso(Future), NaS}}

\* keys outside the sensor fields, with and without a device timestamp
ExtraObjs ==
  {Obj(Undefined, Undefined, t, i, n) :
     t \in {Undefined, Num(Past)},
     i \in {Undefined, NaS},
     n \in {Undefined, NaS}}

Payloads ==
  {Msg("malformed", EmptyObj), Msg("null", EmptyObj), Msg("primitive", EmptyObj)}
  \cup {Msg("object", f) : f \in SensorObjs \cup TimestampObjs \cup ExtraObjs}

\* own properties of the parsed value: a primitive has none of the keys
\* (reading data.x gives undefined, spreading it copies nothing)
Fields(m) == IF m.kind = "object" THEN m.fields ELSE EmptyObj

(* --------------------------- message handlers --------------------------- *)

Thrown(e, reads) == [thrown |-> e, obj |-> EmptyObj, reads |-> reads]

Built(obj, reads) == [thrown |-> "none", obj |-> obj, reads |-> reads]

\* JSON.parse(message.toString()) and the first property read of data:
\* malformed bytes throw a SyntaxError, null throws a TypeError
ParseError(m) ==
  CASE m.kind = "malformed" -> "SyntaxError"
    [] m.kind = "null" -> "TypeError"
    [] OTHER -> "none"

\* the product written as a sum
PuissanceSum(data) ==
  LET x == ToNumber(Coalesce(data["sct013"], Num(0)))
      y == ToNumber(Coalesce(data["voltage"], Num(0)))
  IN IF x.k = "nan" \/ y.k = "nan" THEN NaN ELSE Num(x.v + y.v)

\* (data.sct013 ?? 0) * (data.voltage ?? 0)
Puissance(data) ==
  Mul(Coalesce(data["sct013"], Num(0)), Coalesce(data["voltage"], Num(0)))

\* { puissance, delayMs, timestamp, ...data }: the payload's keys written last
SpreadPayloadLast(data, puissance, delayMs, timestamp) ==
  [p \in Keys |->
     IF data[p].k # "undefined" THEN data[p]
     ELSE CASE p = "puissance" -> puissance
            [] p = "delayMs" -> delayMs
            [] p = "timestamp" -> timestamp
            [] OTHER -> data[p]]

\* { ...data, puissance, delayMs, timestamp }: later keys replace earlier ones
Spread(data, puissance, delayMs, timestamp) ==
  [data EXCEPT !["puissance"] = puissance,
               !["delayMs"] = delayMs,
               !["timestamp"] = timestamp]

\* src/server.js: r1 is Date.now(), r2 the later new Date()
OnMessageServer(m, r1, r2) ==
  IF ParseError(m) # "none" THEN Thrown(ParseError(m), {})
  ELSE
    LET data == Fields(m)
        dataTime == GetTime(data["timestamp"])
        delayMs == Sub(Num(r1), dataTime)
        nullish == data["timestamp"].k \in {"undefined", "null"}
    IN Built(Spread(data, Puissance(data), delayMs,
                    Coalesce(data["timestamp"], DateV(r2))),
             IF nullish THEN {r1, r2} ELSE {r1})

\* src/unnamed/part_002 (and the second file of part_000, whose handler is
\* the same): r1 is the Date.now() of the default, r2 the
\* Date.now() of the delay
OnMessage002(m, r1, r2) ==
  IF ParseError(m) # "none" THEN Thrown(ParseError(m), {})
  ELSE
    LET data == Fields(m)
        nullish == data["timestamp"].k \in {"undefined", "null"}
        timestamp == GetTime(Coalesce(data["timestamp"], Num(r1)))
        reads == IF nullish THEN {r1, r2} ELSE {r2}
    IN IF timestamp.k = "nan" THEN Thrown("Error", IF nullish THEN {r1} ELSE {})
       ELSE Built(Spread(data, Puissance(data), Sub(Num(r2), timestamp),
                         DateV(timestamp.v)),
                  reads)

\* src/unnamed/part_003: the sensor fields are copied one by one (?? null)
OnMessage003(m, r1, r2) ==
  IF ParseError(m) # "none" THEN Thrown(ParseError(m), {})
  ELSE
    LET data == Fields(m)
        dataTime == GetTime(data["timestamp"])
        delayMs == Sub(Num(r1), dataTime)
        nullish == data["timestamp"].k \in {"undefined", "null"}
        copy == [p \in Keys |->
                   IF p \in SensorKeys THEN Coalesce(data[p], Null)
                   ELSE Undefined]
    IN Built(Spread(copy, Puissance(data), delayMs,
                    Coalesce(data["timestamp"], DateV(r2))),
             IF nullish THEN {r1, r2} ELSE {r1})

\* src/unnamed/part_000: the sensor fields are copied one by one, nothing is
\* derived and the timestamp is left to the schema default
OnMessage000(m, r1, r2) ==
  IF ParseError(m) # "none" THEN Thrown(ParseError(m), {})
  ELSE
    LET data == Fields(m)
    IN Built([p \in Keys |->
                IF p \in SensorKeys THEN Coalesce(data[p], Null)
                ELSE Undefined],
             {r1})

\* every handler stamping the sample with the time of arrival
OnMessageStampsArrival(v, m, r1, r2) ==
  LET h == CASE v = "server" -> OnMessageServer(m, r1, r2)
             [] v = "part_000" -> OnMessage000(m, r1, r2)
             [] v \in {"part_002", "part_000b"} -> OnMessage002(m, r1, r2)
             [] v = "part_003" -> OnMessage003(m, r1, r2)
  IN IF h.thrown = "none" THEN [h EXCEPT !.obj["timestamp"] = DateV(r2)] ELSE h

OnMessage(v, m, r1, r2) ==
  CASE v = "server" -> OnMessageServer(m, r1, r2)
    [] v = "part_000" -> OnMessage000(m, r1, r2)
    [] v \in {"part_002", "part_000b"} -> OnMessage002(m, r1, r2)
    [] v = "part_003" -> OnMessage003(m, r1, r2)

\* a catch block that throws the error on
CatchRethrows(e) == [logged |-> FALSE, rethrown |-> TRUE]

\* the catch block of the handler (the .catch of the promise chain in
\* part_000): the error is logged and goes no further
Catch(e) == [logged |-> TRUE, rethrown |-> FALSE]

(* ----------------------------- state machine ---------------------------- *)

\* msgs[i]: the i-th message delivered, with the handler's progress on it:
\*   state   "Pending" (suspended at save()), "Stored", "Dropped" (the catch
\*           block ran) or "Escaped" (the failure left the handler)
\*   cause   the error that ended it, "none" while none did
\*   logged  the catch block wrote the error to the console
\*   writes  insert commands sent to the database for it
\*   doc     the document built from it
\*   at      the clock when the handler started and when it reached save(),
\*           reads the readings of it the handler took
\* store: the collection, in insertion order; origin is the message a sample
\*   comes from, post the POST /energy request it comes from (0 for none),
\*   both kept for the properties only
\* escaped: failures that left a handler uncaught

NoDoc == [fields |-> EmptyObj, errors |-> {}]

\* no response sent yet to a query or to the chatbot
NoResp ==
  [n |-> 0, route |-> "none", status |-> 0, at |-> 0, seen |-> <<>>,
   bounded |-> FALSE, hours |-> 0, since |-> 0, limit |-> 0, result |-> <<>>, latest |-> <<>>,
   tier |-> "none", upstream |-> "none", answer |-> "none"]

\* mqtt: the client of the broker:
\*   connects  "connect" events so far
\*   topics    topics the broker acknowledged a subscription to
\*   failed    subscriptions that failed
\*   logged    subscription failures written to the console

\* the topic of the sensor node
Topic == "maison/energie"

\* the client before its first "connect" event
Unconnected == [connects |-> 0, topics |-> {}, failed |-> 0, logged |-> 0]

\* the client once connected, its subscription acknowledged: where the
\* specifications of the pipeline and of the HTTP routes start
Subscribed == [connects |-> 1, topics |-> {Topic}, failed |-> 0, logged |-> 0]

\* the handler's failure path: the catch block, or the failure escaping
Failed(ms, e) ==
  LET c == Catch(e)
  IN [ms EXCEPT !.state = IF c.rethrown THEN "Escaped" ELSE "Dropped",
                !.cause = e,
                !.logged = c.logged]

Init ==
  /\ variant \in Variants
  /\ now = StartClock
  /\ msgs = <<>>
  /\ store = <<>>
  /\ escaped = 0
  /\ posts = <<>>
  /\ resp = NoResp
  /\ mqtt = Subscribed

\* "connect" events in one run
MaxConnects == 2

\* the server files whose subscribe() call passes a callback that logs the
\* error; part_000 (its first file), part_001 and part_003 pass none
LogsSubscribeError(v) == v \in {"server", "part_000b", "part_002"}

\* the broker (re)connects: the "connect" handler subscribes to the topic;
\* ok is whether the subscription succeeds
Connect(ok) ==
  /\ mqtt.connects < MaxConnects
  /\ mqtt' = IF ok
             THEN [mqtt EXCEPT !.connects = @ + 1, !.topics = @ \cup {Topic}]
             ELSE [mqtt EXCEPT !.connects = @ + 1, !.failed = @ + 1,
                               !.logged = IF LogsSubscribeError(variant)
                                          THEN @ + 1 ELSE @]
  /\ UNCHANGED <<variant, now, msgs, store, escaped, posts, resp>>

\* time passes
Tick ==
  /\ now < MaxClock
  /\ now' = now + 1
  /\ UNCHANGED <<variant, msgs, store, escaped, posts, resp, mqtt>>

\* a handler that keeps a running total between messages: the puissance of a
\* message is added to that of the message before it
ReceiveAccumulates(m, d) ==
  /\ Topic \in mqtt.topics
  /\ Len(msgs) < MaxMsgs
  /\ now + d <= MaxClock
  /\ LET h == OnMessage(variant, m, now, now + d)
         before == IF msgs = <<>> THEN Undefined
                   ELSE msgs[Len(msgs)].doc.fields["puissance"]
         total == IF h.obj["puissance"].k = "num" /\ before.k = "num"
                  THEN Num(h.obj["puissance"].v + before.v)
                  ELSE h.obj["puissance"]
         ms == [payload |-> m, state |-> "Pending", cause |-> "none",
                logged |-> FALSE, writes |-> 0, reads |-> h.reads,
                at |-> <<now, now + d>>,
                doc |-> IF h.thrown = "none"
                        THEN NewEnergyModel(variant,
                                            [h.obj EXCEPT !["puissance"] = total],
                                            now)
                        ELSE NoDoc]
     IN /\ msgs' = Append(msgs, IF h.thrown = "none" THEN ms
                                ELSE Failed(ms, h.thrown))
        /\ escaped' = escaped
  /\ now' = now + d
  /\ UNCHANGED <<variant, store, posts, resp, mqtt>>

\* a subscriber that takes the next message only when no write is pending
ReceiveSerialized(m, d) ==
  /\ Topic \in mqtt.topics
  /\ Len(msgs) < MaxMsgs
  /\ \A i \in 1..Len(msgs) : msgs[i].state # "Pending"
  /\ now + d <= MaxClock
  /\ LET h == OnMessage(variant, m, now, now + d)
         ms == [payload |-> m, state |-> "Pending", cause |-> "none",
                logged |-> FALSE, writes |-> 0, reads |-> h.reads,
                at |-> <<now, now + d>>,
                doc |-> IF h.thrown = "none"
                        THEN NewEnergyModel(variant, h.obj, now)
                        ELSE NoDoc]
     IN /\ msgs' = Append(msgs, IF h.thrown = "none" THEN ms
                                ELSE Failed(ms, h.thrown))
        /\ escaped' = escaped
  /\ now' = now + d
  /\ UNCHANGED <<variant, store, posts, resp, mqtt>>

\* the broker delivers m: the handler runs up to its await (or to the end of
\* its catch block); d is the time that passes between its two clock readings
Receive(m, d) ==
  /\ Topic \in mqtt.topics
  /\ Len(msgs) < MaxMsgs
  /\ now + d <= MaxClock
  /\ LET h == OnMessage(variant, m, now, now + d)
         ms == [payload |-> m, state |-> "Pending", cause |-> "none",
                logged |-> FALSE, writes |-> 0, reads |-> h.reads,
                at |-> <<now, now + d>>,
                doc |-> IF h.thrown = "none"
                        THEN NewEnergyModel(variant, h.obj, now)
                        ELSE NoDoc]
     IN /\ msgs' = Append(msgs, IF h.thrown = "none" THEN ms
                                ELSE Failed(ms, h.thrown))
        /\ escaped' = IF h.thrown # "none" /\ Catch(h.thrown).rethrown
                      THEN escaped + 1 ELSE escaped
  /\ now' = now + d
  /\ UNCHANGED <<variant, store, posts, resp, mqtt>>

\* a save() whose validation outcome is never delivered to the handler
SaveInvalidHangs(i) ==
  /\ i \in 1..Len(msgs)
  /\ msgs[i].state = "Pending"
  /\ ~ValidateBeforeSave(msgs[i].doc)
  /\ UNCHANGED vars

\* save() rejects with a ValidationError: a cast failed when the document was
\* built, nothing is sent to the database
SaveInvalid(i) ==
  /\ i \in 1..Len(msgs)
  /\ msgs[i].state = "Pending"
  /\ ~ValidateBeforeSave(msgs[i].doc)
  /\ msgs' = [msgs EXCEPT ![i] = Failed(@, "ValidationError")]
  /\ escaped' = IF Catch("ValidationError").rethrown THEN escaped + 1 ELSE escaped
  /\ UNCHANGED <<variant, now, store, posts, resp, mqtt>>

\* a save() that resolves although the insert never reached the collection
SaveResolvesUnwritten(i) ==
  /\ i \in 1..Len(msgs)
  /\ msgs[i].state = "Pending"
  /\ ValidateBeforeSave(msgs[i].doc)
  /\ msgs' = [msgs EXCEPT ![i].state = "Stored", ![i].writes = @ + 1]
  /\ UNCHANGED <<variant, now, store, escaped, posts, resp, mqtt>>

\* save() resolves: the insert was sent and the database committed it
SaveResolves(i) ==
  /\ i \in 1..Len(msgs)
  /\ msgs[i].state = "Pending"
  /\ ValidateBeforeSave(msgs[i].doc)
  /\ store' = Append(store, [fields |-> msgs[i].doc.fields, origin |-> i,
                              post |-> 0])
  /\ msgs' = [msgs EXCEPT ![i].state = "Stored", ![i].writes = @ + 1]
  /\ UNCHANGED <<variant, now, escaped, posts, resp, mqtt>>

\* a catch block that sends the refused insert a second time
SaveRejectsRetries(i) ==
  /\ i \in 1..Len(msgs)
  /\ msgs[i].state = "Pending"
  /\ ValidateBeforeSave(msgs[i].doc)
  /\ msgs' = [msgs EXCEPT ![i] = Failed([@ EXCEPT !.writes = @ + 2], "StorageError")]
  /\ UNCHANGED <<variant, now, store, escaped, posts, resp, mqtt>>

\* save() rejects: the insert was sent and the database refused or lost it
SaveRejects(i) ==
  /\ i \in 1..Len(msgs)
  /\ msgs[i].state = "Pending"
  /\ ValidateBeforeSave(msgs[i].doc)
  /\ msgs' = [msgs EXCEPT ![i] = Failed([@ EXCEPT !.writes = @ + 1], "StorageError")]
  /\ escaped' = IF Catch("StorageError").rethrown THEN escaped + 1 ELSE escaped
  /\ UNCHANGED <<variant, now, store, posts, resp, mqtt>>

(* ------------------------------ HTTP routes ----------------------------- *)

\* posts[j]: the j-th POST /energy request, with the handler's progress:
\*   state     "Pending" (suspended at save()) or "Done"
\*   status    the status of the response sent, 0 while none was
\*   responses responses sent for it
\*   writes    insert commands sent to the database for it
\*   doc       the document built from its body
\* resp: the last response to a GET /energy, GET /energy/all or
\*   POST /chatbot request, with what the handler computed on the way:
\*   n         the requests answered so far
\*   at        the clock when the request came
\*   seen      the collection as the query found it
\*   bounded, hours, since, limit   the filter and the limit of the query
\*   result    the documents the query returned, in the order returned
\*   latest, tier   the advisory's latest sample and its alert tier
\*   upstream  how the call to the text-generation API ended ("ok", "error",
\*             "none" when it was not made)
\*   answer    the origin of the answer text: "upstream", "local" (the canned
\*             answers of server.js) or "sorry" (the apology sent with a 500)

\* POST /energy requests in one run
MaxPosts == 1

\* GET /energy, GET /energy/all and POST /chatbot requests in one run
MaxQueries == 1

\* .limit() of GET /energy (2000 in server.js, 250 and 200 elsewhere),
\* scaled down to the collections a run can build
LimitEnergy == 2

\* .limit() of GET /energy/all (50), scaled down likewise
LimitAll == 1

\* 60 * 60 * 1000: one hour on the clock of the model
HourMs == 1

\* the server files that declare HTTP routes
HttpVariants == {"server", "part_000", "part_000b", "part_002"}

\* a string of decimal digits, as a query parameter carries it
Digits(n) == [k |-> "digits", v |-> n]

\* parseInt(x)
ParseInt(x) == IF x.k = "digits" THEN Num(x.v) ELSE NaN

\* x || d
Or(x, d) == IF x.k \in {"undefined", "null", "nan"} \/ x = Num(0) THEN d ELSE x

\* keys of the Joi schema of POST /energy
\* a schema that also names the timestamp
JoiKeysWithTimestamp == SensorKeys \cup {"timestamp"}

JoiKeys == SensorKeys

\* a schema that accepts every body
JoiAllowsAll(body) == "none"

\* schema.validate(body).error: a key the schema does not name is not
\* allowed, a value that is no number fails Joi.number()
JoiValidate(body) ==
  CASE \E p \in Keys \ JoiKeys : body[p].k # "undefined" -> "not allowed"
    [] \E p \in JoiKeys : body[p].k \notin {"undefined", "num"} -> "must be a number"
    [] OTHER -> "none"

\* request bodies with sensor fields only: none, numbers, and a field that
\* is a string or null next to fields that are numbers
SensorBodies ==
  {[EmptyObj EXCEPT !["sct013"] = s, !["voltage"] = u, !["gasDetected"] = g] :
     s \in {Undefined, Num(2)}, u \in {Undefined, Num(3)}, g \in {Undefined}}
  \cup {[EmptyObj EXCEPT !["sct013"] = Num(2), !["voltage"] = Num(3),
                         !["gasDetected"] = g] : g \in {Num(3001), NaS, Null}}

\* request bodies with a key the Joi schema does not name
ExtraBodies ==
  {[EmptyObj EXCEPT ![p] = Num(Past)] :
     p \in {"timestamp", "puissance", "delayMs", "note"}}
  \cup {[EmptyObj EXCEPT !["sct013"] = Num(2), !["timestamp"] = Num(Past)]}

Bodies == SensorBodies \cup ExtraBodies

\* routes each server file declares
HasPostEnergy(v) == v \in {"server", "part_000", "part_000b", "part_002"}

HasGetEnergy(v) == v \in {"server", "part_000", "part_000b", "part_002"}

HasGetEnergyAll(v) == v = "part_002"

HasChatbot(v) == v \in {"server", "part_000b", "part_002"}

\* a document that carries the derived fields of the pipeline
PostDocDerived(v, body, t) ==
  NewEnergyModel(v, Spread(body, Puissance(body), Num(0), DateV(t)), t)

\* new EnergyModel(req.body)
PostDoc(v, body, t) == NewEnergyModel(v, body, t)

\* POST /energy up to its await: a body Joi refuses is answered 400 at once,
\* any other body becomes a document whose save() is awaited
PostEnergy(b) ==
  /\ HasPostEnergy(variant)
  /\ Len(posts) < MaxPosts
  /\ LET rq == [body |-> b, state |-> "Pending", status |-> 0,
                responses |-> 0, writes |-> 0,
                doc |-> PostDoc(variant, b, now)]
     IN posts' = Append(posts,
                        IF JoiValidate(b) # "none"
                        THEN [rq EXCEPT !.state = "Done", !.status = 400,
                                        !.responses = 1, !.doc = NoDoc]
                        ELSE rq)
  /\ UNCHANGED <<variant, now, msgs, store, escaped, resp, mqtt>>

\* a write that replaces the collection's last sample instead of adding one
PostSaveResolvesReplaces(j) ==
  /\ j \in 1..Len(posts)
  /\ posts[j].state = "Pending"
  /\ ValidateBeforeSave(posts[j].doc)
  /\ store' = IF store = <<>>
              THEN <<[fields |-> posts[j].doc.fields, origin |-> 0, post |-> j]>>
              ELSE [store EXCEPT ![Len(store)] =
                      [fields |-> posts[j].doc.fields, origin |-> 0, post |-> j]]
  /\ posts' = [posts EXCEPT ![j].state = "Done", ![j].status = 201,
                            ![j].responses = @ + 1, ![j].writes = @ + 1]
  /\ UNCHANGED <<variant, now, msgs, escaped, resp, mqtt>>

\* save() resolves: the insert was committed, the handler answers 201
PostSaveResolves(j) ==
  /\ j \in 1..Len(posts)
  /\ posts[j].state = "Pending"
  /\ ValidateBeforeSave(posts[j].doc)
  /\ store' = Append(store, [fields |-> posts[j].doc.fields, origin |-> 0,
                              post |-> j])
  /\ posts' = [posts EXCEPT ![j].state = "Done", ![j].status = 201,
                            ![j].responses = @ + 1, ![j].writes = @ + 1]
  /\ UNCHANGED <<variant, now, msgs, escaped, resp, mqtt>>

\* a catch block that answers a refused insert as if it had been stored
PostSaveRejectsCreated(j) ==
  /\ j \in 1..Len(posts)
  /\ posts[j].state = "Pending"
  /\ posts' = [posts EXCEPT ![j].state = "Done", ![j].status = 201,
                            ![j].responses = @ + 1, ![j].writes = @ + 1]
  /\ UNCHANGED <<variant, now, msgs, store, escaped, resp, mqtt>>

\* save() rejects (validation of the document, or the database refused or
\* lost the insert): the catch block answers 500
PostSaveRejects(j) ==
  /\ j \in 1..Len(posts)
  /\ posts[j].state = "Pending"
  /\ posts' = [posts EXCEPT ![j].state = "Done", ![j].status = 500,
                            ![j].responses = @ + 1,
                            ![j].writes = IF ValidateBeforeSave(posts[j].doc)
                                          THEN @ + 1 ELSE @]
  /\ UNCHANGED <<variant, now, msgs, store, escaped, resp, mqtt>>

\* sort key of { timestamp: -1 }: a missing timestamp sorts after every date
TsKey(e) ==
  IF e.fields["timestamp"].k = "date" THEN e.fields["timestamp"].v ELSE -1

\* a query without its filter
MatchesAll(e, bounded, since) == TRUE

\* { timestamp: { $gte: since } }, or no filter
Matches(e, bounded, since) ==
  \/ ~bounded
  \/ /\ e.fields["timestamp"].k = "date"
     /\ e.fields["timestamp"].v >= since

\* the first lim matching documents in insertion order, not sorted
FindUnsorted(st, bounded, since, lim) ==
  LET match == {k \in 1..Len(st) : Matches(st[k], bounded, since)}
      n == IF Cardinality(match) < lim THEN Cardinality(match) ELSE lim
      r == [i \in 1..n |->
              CHOOSE k \in match : Cardinality({l \in match : l < k}) = i - 1]
  IN {[i \in 1..n |-> st[r[i]]]}

\* find(filter).sort({ timestamp: -1 }).limit(lim): every result the database
\* may give. The sort orders by timestamp only, so documents with equal
\* timestamps come in any order, and any of them may be the ones a limit cuts
Find(st, bounded, since, lim) ==
  LET match == {k \in 1..Len(st) : Matches(st[k], bounded, since)}
      n == IF Cardinality(match) < lim THEN Cardinality(match) ELSE lim
      ok(r) ==
        /\ \A i, j \in 1..n :
             i < j => (r[i] # r[j] /\ TsKey(st[r[i]]) >= TsKey(st[r[j]]))
        /\ \A k \in match :
             (\A i \in 1..n : r[i] # k)
             => \A i \in 1..n : TsKey(st[k]) <= TsKey(st[r[i]])
  IN {[i \in 1..n |-> st[r[i]]] : r \in {x \in [1..n -> match] : ok(x)}}

\* values of the hours query parameter
HoursParams == {Undefined, NaS, Digits(0), Digits(2)}

\* GET /energy. part_002 and the second file of part_000 return the samples
\* of the last hours (part_002 reads the number of hours from the query and
\* limits the result), the others the latest samples whatever their age;
\* ok is whether the database answered the query
GetEnergy(q, ok) ==
  /\ HasGetEnergy(variant)
  /\ resp.n < MaxQueries
  /\ LET bounded == variant \in {"part_002", "part_000b"}
         hours == IF variant = "part_002" THEN Or(ParseInt(q), Num(1)).v ELSE 1
         since == IF bounded THEN now - hours * HourMs ELSE 0
         lim == IF variant = "part_000b" THEN Len(store) ELSE LimitEnergy
         rs == [NoResp EXCEPT !.n = resp.n + 1, !.route = "GET /energy",
                              !.at = now, !.seen = store,
                              !.bounded = bounded,
                              !.hours = IF bounded THEN hours ELSE 0,
                              !.since = since, !.limit = lim]
     IN IF ok
        THEN \E r \in Find(store, bounded, since, lim) :
               resp' = [rs EXCEPT !.status = 200, !.result = r]
        ELSE resp' = [rs EXCEPT !.status = 500]
  /\ UNCHANGED <<variant, now, msgs, store, escaped, posts, mqtt>>

\* a query that removes what it returns
GetEnergyAllDrains(ok) ==
  /\ HasGetEnergyAll(variant)
  /\ resp.n < MaxQueries
  /\ LET rs == [NoResp EXCEPT !.n = resp.n + 1, !.route = "GET /energy/all",
                              !.at = now, !.seen = store, !.limit = LimitAll]
     IN IF ok
        THEN \E r \in Find(store, FALSE, 0, LimitAll) :
               resp' = [rs EXCEPT !.status = 200, !.result = r]
        ELSE resp' = [rs EXCEPT !.status = 500]
  /\ store' = <<>>
  /\ UNCHANGED <<variant, now, msgs, escaped, posts, mqtt>>

\* GET /energy/all (part_002): the latest samples whatever their age
GetEnergyAll(ok) ==
  /\ HasGetEnergyAll(variant)
  /\ resp.n < MaxQueries
  /\ LET rs == [NoResp EXCEPT !.n = resp.n + 1, !.route = "GET /energy/all",
                              !.at = now, !.seen = store, !.limit = LimitAll]
     IN IF ok
        THEN \E r \in Find(store, FALSE, 0, LimitAll) :
               resp' = [rs EXCEPT !.status = 200, !.result = r]
        ELSE resp' = [rs EXCEPT !.status = 500]
  /\ UNCHANGED <<variant, now, msgs, store, escaped, posts, mqtt>>

\* the tiers with their boundaries counted in the upper tier
AlertTierInclusive(g) ==
  LET n == ToNumber(g)
  IN CASE n.k = "num" /\ n.v >= 3000 -> "high"
       [] n.k = "num" /\ n.v >= 1000 -> "middle"
       [] OTHER -> "low"

\* tiers that give no label to a sample without a gas level
AlertTierUnsetSilent(g) ==
  LET n == ToNumber(g)
  IN CASE n.k = "num" /\ n.v > 3000 -> "high"
       [] n.k = "num" /\ n.v > 1000 -> "middle"
       [] n.k = "num" -> "low"
       [] OTHER -> "none"

\* if (gasDetected > 3000) ... else if (gasDetected > 1000) ... else ...
AlertTier(g) ==
  LET n == ToNumber(g)
  IN CASE n.k = "num" /\ n.v > 3000 -> "high"
       [] n.k = "num" /\ n.v > 1000 -> "middle"
       [] OTHER -> "low"

\* the question of a request: none (or the empty string), or a text
Questions == {Undefined, NaS}

\* POST /chatbot. key is whether DEEPSEEK_API_KEY is set, up whether the
\* text-generation API answers the call, db whether the database answers the
\* read of the latest sample (part_002 only)
Chatbot(question, key, up, db) ==
  /\ HasChatbot(variant)
  /\ resp.n < MaxQueries
  /\ LET rs == [NoResp EXCEPT !.n = resp.n + 1, !.route = "POST /chatbot",
                              !.at = now]
         called == [rs EXCEPT !.upstream = IF key /\ up THEN "ok" ELSE "error"]
         answered == [called EXCEPT !.status = 200, !.answer = "upstream"]
         sorry == [called EXCEPT !.status = 500, !.answer = "sorry"]
     IN CASE question.k = "undefined" -> resp' = [rs EXCEPT !.status = 400]
          [] question.k # "undefined" /\ variant = "server" ->
               IF key /\ up
               THEN resp' = answered
               ELSE resp' = [rs EXCEPT !.status = 200, !.answer = "local",
                                       !.upstream = IF key THEN "error" ELSE "none"]
          [] question.k # "undefined" /\ variant = "part_000b" ->
               resp' = IF key /\ up THEN answered ELSE sorry
          [] question.k # "undefined" /\ variant = "part_002" ->
               IF ~db
               THEN resp' = [rs EXCEPT !.status = 500, !.answer = "sorry",
                                       !.seen = store]
               ELSE \E l \in Find(store, FALSE, 0, 1) :
                      LET tier == IF l = <<>> THEN "none"
                                  ELSE AlertTier(l[1].fields["gasDetected"])
                          read == [x \in {answered, sorry} |->
                                     [x EXCEPT !.seen = store, !.limit = 1,
                                               !.latest = l, !.tier = tier]]
                      IN resp' = IF key /\ up THEN read[answered] ELSE read[sorry]
  /\ UNCHANGED <<variant, now, msgs, store, escaped, posts, mqtt>>

\* readings with a gas level on each side of the two alert boundaries
GasObjs ==
  {[Obj(Num(2), Num(3), Undefined, Undefined, Undefined)
      EXCEPT !["gasDetected"] = g] :
     g \in {Num(1000), Num(1001), Num(3000), Num(3001)}}

\* readings without a device timestamp, and with one behind and ahead of
\* the clock
TimedObjs ==
  {Obj(Num(2), Num(3), t, Undefined, Undefined) :
     t \in {Undefined, Num(Past), Iso(Future)}}

\* messages of a run that exercises POST /energy
PostPayloads == {Msg("object", f) : f \in TimedObjs}

\* messages of a run that exercises the queries and the chatbot
QueryPayloads == {Msg("object", f) : f \in TimedObjs \cup GasObjs}

Next ==
  \/ Tick
  \/ \E m \in Payloads, d \in {0, 1} : Receive(m, d)
  \/ \E i \in 1..MaxMsgs : SaveInvalid(i)
  \/ \E i \in 1..MaxMsgs : SaveResolves(i)
  \/ \E i \in 1..MaxMsgs : SaveRejects(i)

Spec == Init /\ [][Next]_vars

\* the database answers every write, and a rejected validation is delivered
FairSpec ==
  /\ Spec
  /\ \A i \in 1..MaxMsgs :
       /\ WF_vars(SaveInvalid(i))
       /\ WF_vars(SaveResolves(i) \/ SaveRejects(i))

\* a deployment of any server file, with its HTTP routes in use
HttpInit ==
  /\ variant \in HttpVariants
  /\ now = StartClock
  /\ msgs = <<>>
  /\ store = <<>>
  /\ escaped = 0
  /\ posts = <<>>
  /\ resp = NoResp
  /\ mqtt = Subscribed

\* the pipeline next to POST /energy
PostNext ==
  \/ Tick
  \/ \E m \in PostPayloads : Receive(m, 0)
  \/ \E i \in 1..MaxMsgs : SaveInvalid(i)
  \/ \E i \in 1..MaxMsgs : SaveResolves(i)
  \/ \E i \in 1..MaxMsgs : SaveRejects(i)
  \/ \E b \in Bodies : PostEnergy(b)
  \/ \E j \in 1..MaxPosts : PostSaveResolves(j)
  \/ \E j \in 1..MaxPosts : PostSaveRejects(j)

PostSpec == HttpInit /\ [][PostNext]_vars

\* the database answers every write
PostFairSpec ==
  /\ PostSpec
  /\ \A j \in 1..MaxPosts : WF_vars(PostSaveResolves(j) \/ PostSaveRejects(j))

\* the pipeline next to the queries and the chatbot
QueryNext ==
  \/ Tick
  \/ \E m \in QueryPayloads : Receive(m, 0)
  \/ \E i \in 1..MaxMsgs : SaveInvalid(i)
  \/ \E i \in 1..MaxMsgs : SaveResolves(i)
  \/ \E i \in 1..MaxMsgs : SaveRejects(i)
  \/ \E q \in HoursParams, ok \in BOOLEAN : GetEnergy(q, ok)
  \/ \E ok \in BOOLEAN : GetEnergyAll(ok)
  \/ \E question \in Questions, key, up, db \in BOOLEAN :
       Chatbot(question, key, up, db)

QuerySpec == HttpInit /\ [][QueryNext]_vars

\* request bodies of a run that mixes all operations: one that is stored and
\* one that is refused
CoreBodies ==
  {[EmptyObj EXCEPT !["sct013"] = Num(2), !["voltage"] = Num(3)],
   [EmptyObj EXCEPT !["timestamp"] = Num(Past)]}

\* every operation of the server next to every other: the pipeline, the
\* manual insert, the queries and the chatbot
CoreNext ==
  \/ Tick
  \/ \E m \in PostPayloads : Receive(m, 0)
  \/ \E i \in 1..MaxMsgs : SaveInvalid(i)
  \/ \E i \in 1..MaxMsgs : SaveResolves(i)
  \/ \E i \in 1..MaxMsgs : SaveRejects(i)
  \/ \E b \in CoreBodies : PostEnergy(b)
  \/ \E j \in 1..MaxPosts : PostSaveResolves(j)
  \/ \E j \in 1..MaxPosts : PostSaveRejects(j)
  \/ \E q \in HoursParams, ok \in BOOLEAN : GetEnergy(q, ok)
  \/ \E ok \in BOOLEAN : GetEnergyAll(ok)
  \/ \E question \in Questions, key, up, db \in BOOLEAN :
       Chatbot(question, key, up, db)

CoreSpec == HttpInit /\ [][CoreNext]_vars

\* a deployment of any server file before the broker connection
MqttInit ==
  /\ variant \in HttpVariants \cup Variants
  /\ now = StartClock
  /\ msgs = <<>>
  /\ store = <<>>
  /\ escaped = 0
  /\ posts = <<>>
  /\ resp = NoResp
  /\ mqtt = Unconnected

\* the connection to the broker next to the pipeline and a query
MqttNext ==
  \/ Tick
  \/ \E ok \in BOOLEAN : Connect(ok)
  \/ \E m \in PostPayloads : Receive(m, 0)
  \/ \E i \in 1..MaxMsgs : SaveInvalid(i)
  \/ \E i \in 1..MaxMsgs : SaveResolves(i)
  \/ \E i \in 1..MaxMsgs : SaveRejects(i)
  \/ \E q \in HoursParams, ok \in BOOLEAN : GetEnergy(q, ok)

MqttSpec == MqttInit /\ [][MqttNext]_vars

\* a value no derivation of a run can yield
Supplied == 9

\* complete readings that carry puissance and delayMs keys of their own
DerivedKeyObjs ==
  {[Obj(Num(2), Num(3), t, Undefined, Undefined)
      EXCEPT !["puissance"] = pp, !["delayMs"] = dd] :
     t \in {Undefined, Num(Past)},
     pp \in {Undefined, Num(Supplied), NaS},
     dd \in {Undefined, Num(Supplied), NaS}}

DerivedKeyPayloads == {Msg("object", f) : f \in DerivedKeyObjs}

\* the pipeline fed with such readings
DerivedKeyNext ==
  \/ Tick
  \/ \E m \in DerivedKeyPayloads, d \in {0, 1} : Receive(m, d)
  \/ \E i \in 1..MaxMsgs : SaveInvalid(i)
  \/ \E i \in 1..MaxMsgs : SaveResolves(i)
  \/ \E i \in 1..MaxMsgs : SaveRejects(i)

DerivedKeySpec == Init /\ [][DerivedKeyNext]_vars

(* ------------------------------ properties ------------------------------ *)

Terminal(i) == msgs[i].state \in {"Stored", "Dropped"}

\* the handlers that derive puissance and delayMs and resolve the device
\* timestamp: all but part_000, which copies the sensor fields only
Derives(v) == v # "part_000"

\* the payload's own properties, as the handler reads them
Data(i) == Fields(msgs[i].payload)

Present(x) == x.k \notin {"undefined", "null"}

\* a payload whose sensor fields and _id cast without error
CleanSensors(f) ==
  /\ f["sct013"].k \in {"undefined", "null", "num"}
  /\ f["voltage"].k \in {"undefined", "null", "num"}
  /\ f["_id"].k = "undefined"

\* C1: every sample the pipeline stores has puissance = sct013 * voltage,
\* each factor taken as 0 when the payload does not carry it
C1_PuissanceIsProduct ==
  \A k \in 1..Len(store) :
    LET f == Data(store[k].origin)
        a == IF Present(f["sct013"]) THEN f["sct013"].v ELSE 0
        b == IF Present(f["voltage"]) THEN f["voltage"].v ELSE 0
    IN Derives(variant) => store[k].fields["puissance"] = Num(a * b)

\* one stored sample with both factors (2 * 3), another with voltage absent
C1_Witness ==
  /\ variant = "server"
  /\ \E k, j \in 1..Len(store) :
       /\ Present(Data(store[k].origin)["sct013"])
       /\ Present(Data(store[k].origin)["voltage"])
       /\ store[k].fields["puissance"] = Num(6)
       /\ Present(Data(store[j].origin)["sct013"])
       /\ ~Present(Data(store[j].origin)["voltage"])
       /\ store[j].fields["puissance"] = Num(0)

\* C2: a JSON object without a timestamp field is not dropped: once handled
\* (and unless the database refused the write) it is stored with a timestamp
\* read from the clock during its handling and a finite delayMs
C2_AbsentTimestampStored ==
  \A i \in 1..Len(msgs) :
    ( /\ variant \in {"server", "part_002"}
      /\ msgs[i].payload.kind = "object"
      /\ Data(i)["timestamp"].k = "undefined"
      /\ CleanSensors(Data(i))
      /\ Terminal(i)
      /\ msgs[i].cause # "StorageError" )
    => /\ msgs[i].state = "Stored"
       /\ msgs[i].doc.fields["timestamp"] \in {DateV(r) : r \in msgs[i].reads}
       /\ msgs[i].doc.fields["delayMs"].k = "num"

\* C3: a message whose timestamp is present but not parsable is dropped: no
\* write is sent for it, no sample comes from it, and the collection holds
\* exactly the samples of the messages that were stored
C3_UnparsableTimestampDropped ==
  /\ \A i \in 1..Len(msgs) :
       (Derives(variant) /\ Data(i)["timestamp"] = NaS)
       => /\ msgs[i].state # "Stored"
          /\ msgs[i].writes = 0
          /\ \A k \in 1..Len(store) : store[k].origin # i
          /\ Terminal(i) => (msgs[i].state = "Dropped" /\ msgs[i].logged)
  /\ Len(store) = Cardinality({i \in 1..Len(msgs) : msgs[i].state = "Stored"})

\* an unparsable timestamp dropped after an earlier message was stored
C3_Witness ==
  /\ Len(msgs) = 2
  /\ msgs[1].state = "Stored"
  /\ Data(2)["timestamp"] = NaS
  /\ msgs[2].state = "Dropped"
  /\ Len(store) = 1

\* C4: every stored pipeline sample has delayMs = (a clock reading of its
\* handling) - (its stored timestamp), negative values included
C4_DelayIsClockMinusTimestamp ==
  \A k \in 1..Len(store) :
    variant \in {"server", "part_002"}
    => \E r \in msgs[store[k].origin].reads :
         store[k].fields["delayMs"] = Num(r - store[k].fields["timestamp"].v)

\* C5: a parsable device timestamp is the stored timestamp
C5_DeviceTimestampStored ==
  \A k \in 1..Len(store) :
    LET ts == Data(store[k].origin)["timestamp"]
    IN (Derives(variant) /\ ts.k \in {"num", "iso"})
       => store[k].fields["timestamp"] = DateV(ts.v)

\* a sample stored under a device timestamp ahead of the clock, and one under
\* a device timestamp behind it
C5_Witness ==
  \E k, j \in 1..Len(store) :
    /\ Data(store[k].origin)["timestamp"] = Iso(Future)
    /\ store[k].fields["timestamp"] = DateV(Future)
    /\ store[k].fields["delayMs"].v < 0
    /\ Data(store[j].origin)["timestamp"] = Num(Past)
    /\ store[j].fields["timestamp"] = DateV(Past)
    /\ store[j].fields["delayMs"].v > 0

InStore(i) == \E k \in 1..Len(store) : store[k].origin = i

\* C6: no failure leaves the handler: every failed message is logged and
\* dropped and leaves no sample, and every other message carries exactly the
\* document its own payload and clock readings give, whatever came before
C6_FailuresContained ==
  /\ escaped = 0
  /\ \A i \in 1..Len(msgs) :
       /\ msgs[i].state # "Escaped"
       /\ msgs[i].cause # "none"
          => (msgs[i].state = "Dropped" /\ msgs[i].logged /\ ~InStore(i))
       /\ msgs[i].cause \in {"none", "ValidationError", "StorageError"}
          => msgs[i].doc =
               NewEnergyModel(variant,
                              OnMessage(variant, msgs[i].payload,
                                        msgs[i].at[1], msgs[i].at[2]).obj,
                              msgs[i].at[1])
  /\ \A k \in 1..Len(store) :
       /\ msgs[store[k].origin].state = "Stored"
       /\ store[k].fields = msgs[store[k].origin].doc.fields

\* malformed bytes dropped and logged, then a valid message stored
C6_Witness ==
  /\ Len(msgs) = 2
  /\ msgs[1].payload.kind = "malformed"
  /\ msgs[1].state = "Dropped"
  /\ msgs[1].logged
  /\ msgs[2].state = "Stored"
  /\ Len(store) = 1
  /\ escaped = 0

EarlyCauses == {"SyntaxError", "TypeError", "Error", "ValidationError"}

\* C7: a message causes at most one write: one when its document was built
\* and passed validation, none when it was dropped before that; a message
\* that reached Stored or Dropped is never touched again
C7_AtMostOneWrite ==
  /\ [](\A i \in 1..Len(msgs) :
          /\ msgs[i].writes <= 1
          /\ Cardinality({k \in 1..Len(store) : store[k].origin = i}) <= 1
          /\ msgs[i].state = "Stored" => msgs[i].writes = 1
          /\ msgs[i].cause \in EarlyCauses => msgs[i].writes = 0
          /\ (Terminal(i) /\ msgs[i].cause \notin EarlyCauses) => msgs[i].writes = 1)
  /\ [][\A i \in 1..Len(msgs) : Terminal(i) => msgs'[i] = msgs[i]]_vars

\* one message written once and stored, one written once and refused, one
\* dropped without a write
C7_Witness ==
  /\ Len(msgs) = 2
  /\ msgs[1].state = "Dropped"
  /\ msgs[1].cause = "StorageError"
  /\ msgs[1].writes = 1
  /\ msgs[2].state = "Dropped"
  /\ msgs[2].cause \in EarlyCauses
  /\ msgs[2].writes = 0

\* C8: every message received ends Stored or Dropped, never both, provided
\* save() settles
C8_EveryMessageTerminates ==
  /\ \A i \in 1..MaxMsgs :
       [](Len(msgs) >= i => <>(Len(msgs) >= i /\ Terminal(i)))
  /\ [](\A i \in 1..Len(msgs) :
          /\ msgs[i].state \in {"Pending", "Stored", "Dropped"}
          /\ msgs[i].state = "Stored" <=> InStore(i)
          /\ msgs[i].state = "Dropped" <=> msgs[i].logged
          /\ ~(InStore(i) /\ msgs[i].logged))

\* both terminal states reached from a pending save()
C8_Witness ==
  /\ Len(msgs) = 2
  /\ msgs[1].state = "Stored"
  /\ msgs[2].state = "Dropped"
  /\ msgs[2].cause = "ValidationError"

\* C9: the empty object is stored, not dropped (unless the database refuses
\* the write)
C9_EmptyObjectStored ==
  \A i \in 1..Len(msgs) :
    ( /\ variant \in {"server", "part_003"}
      /\ msgs[i].payload = Msg("object", EmptyObj)
      /\ Terminal(i)
      /\ msgs[i].cause # "StorageError" )
    => msgs[i].state = "Stored"

\* C10: a key outside the sample fields never costs the message: when the
\* payload without it gives a storable document, the payload with it gives
\* the same document
C10_UnknownFieldIgnored ==
  \A i \in 1..Len(msgs) :
    LET f == Data(i)
        bare == [f EXCEPT !["_id"] = Undefined, !["note"] = Undefined]
        h == OnMessage(variant, Msg("object", bare), msgs[i].at[1], msgs[i].at[2])
        d == NewEnergyModel(variant, h.obj, msgs[i].at[1])
    IN ( /\ variant = "server"
         /\ msgs[i].payload.kind = "object"
         /\ f # bare
         /\ h.thrown = "none"
         /\ ValidateBeforeSave(d) )
       => msgs[i].doc = d

\* a body with a sensor field that is present and is no number
NonNumeric(b) == \E p \in SensorKeys : b[p].k \notin {"undefined", "num"}

FromPost(j) == {k \in 1..Len(store) : store[k].post = j}

\* C11: POST /energy with a present non-numeric field is answered 400 and
\* nothing else: no write is sent, no sample comes from it, and the step that
\* answers it leaves the collection as it was
C11_NonNumericRejected ==
  /\ [](\A j \in 1..Len(posts) :
          NonNumeric(posts[j].body)
          => /\ posts[j].state = "Done"
             /\ posts[j].status = 400
             /\ posts[j].writes = 0
             /\ FromPost(j) = {})
  /\ [][\A j \in 1..Len(posts') :
          (j > Len(posts) /\ NonNumeric(posts'[j].body)) => store' = store]_vars

\* a body with a string field and one with a null field refused while the
\* collection holds a sample
C11_Witness ==
  /\ Len(store) > 0
  /\ \E j \in 1..Len(posts) :
       /\ posts[j].body["gasDetected"] \in {NaS, Null}
       /\ posts[j].body["sct013"] = Num(2)
       /\ posts[j].status = 400

\* C12: every POST /energy request is answered once, provided save()
\* settles: 400 without a write, 201 with exactly one sample added, or 500
\* with none added; an answered request is never touched again
C12_OneResponsePerRequest ==
  /\ \A j \in 1..MaxPosts :
       [](Len(posts) >= j => <>(Len(posts) >= j /\ posts[j].state = "Done"))
  /\ [](\A j \in 1..Len(posts) :
          /\ posts[j].state = "Pending"
             => (posts[j].responses = 0 /\ posts[j].status = 0 /\ FromPost(j) = {})
          /\ posts[j].state = "Done"
             => (posts[j].responses = 1 /\ posts[j].status \in {400, 201, 500})
          /\ posts[j].status = 400 => (posts[j].writes = 0 /\ FromPost(j) = {})
          /\ posts[j].status = 201
             => (posts[j].writes = 1 /\ Cardinality(FromPost(j)) = 1)
          /\ posts[j].status = 500 => FromPost(j) = {})
  /\ [][\A j \in 1..Len(posts) :
          /\ posts[j].state = "Done" => posts'[j] = posts[j]
          /\ posts'[j].status = 201 /\ posts[j].status # 201
             => Len(store') = Len(store) + 1
          /\ posts'[j].status = 500 /\ posts[j].status # 500
             => store' = store]_vars

\* a write the database refused, answered 500, next to a stored sample of
\* the pipeline
C12_Witness ==
  /\ Len(store) > 0
  /\ \E j \in 1..Len(posts) :
       /\ posts[j].status = 500
       /\ posts[j].writes = 1
       /\ posts[j].responses = 1

\* C13: a sample stored through POST /energy carries the sensor fields of the
\* body as they were sent, the timestamp of the schema default, and neither
\* puissance nor delayMs
C13_ManualInsertIsRaw ==
  \A k \in 1..Len(store) :
    store[k].post # 0
    => /\ \A p \in SensorKeys :
            store[k].fields[p] = posts[store[k].post].body[p]
       /\ store[k].fields["puissance"] = Undefined
       /\ store[k].fields["delayMs"] = Undefined
       /\ store[k].fields["timestamp"].k = "date"

\* a manual sample with sct013 and voltage and no puissance, next to a sample
\* of the pipeline with the same readings and their product
C13_Witness ==
  \E k, l \in 1..Len(store) :
    /\ store[k].post # 0
    /\ store[k].fields["sct013"] = Num(2)
    /\ store[k].fields["voltage"] = Num(3)
    /\ store[k].fields["puissance"] = Undefined
    /\ store[l].origin # 0
    /\ store[l].fields["sct013"] = Num(2)
    /\ store[l].fields["voltage"] = Num(3)
    /\ store[l].fields["puissance"] = Num(6)

Range(r) == {r[i] : i \in 1..Len(r)}

Descending(r) ==
  \A i, j \in 1..Len(r) :
    i < j => r[i].fields["timestamp"].v >= r[j].fields["timestamp"].v

\* C14: the time-bounded GET /energy (part_002, and the second file of
\* part_000) returns stored samples only, each with a timestamp at or after
\* the clock of the request minus the window, in descending timestamp order
C14_RecentOnlyDescending ==
  (resp.route = "GET /energy" /\ resp.bounded /\ resp.status = 200)
  => /\ Range(resp.result) \subseteq Range(resp.seen)
     /\ \A i \in 1..Len(resp.result) :
          /\ resp.result[i].fields["timestamp"].k = "date"
          /\ resp.result[i].fields["timestamp"].v >= resp.at - resp.hours * HourMs
     /\ Descending(resp.result)
     /\ resp.hours \in {1, 2}

\* a sample older than the window left out, a sample inside it returned
C14_Witness ==
  /\ resp.route = "GET /energy"
  /\ resp.bounded
  /\ resp.status = 200
  /\ Len(resp.result) = 1
  /\ \E e \in Range(resp.seen) :
       /\ e.fields["timestamp"].v < resp.at - HourMs
       /\ e \notin Range(resp.result)

\* a response of a count-bounded retrieval: GET /energy where it has no
\* filter (server.js, the first file of part_000), or GET /energy/all
CountBounded ==
  /\ resp.status = 200
  /\ \/ resp.route = "GET /energy" /\ ~resp.bounded
     \/ resp.route = "GET /energy/all"

\* C15: a count-bounded retrieval returns, whatever their age, as many
\* stored samples as its limit allows (all of them when fewer exist), none
\* twice, none with a timestamp below that of a sample left out, in
\* descending timestamp order
C15_LatestNDescending ==
  CountBounded
  => /\ Range(resp.result) \subseteq Range(resp.seen)
     /\ Cardinality(Range(resp.result)) = Len(resp.result)
     /\ Len(resp.result) = IF Len(resp.seen) < resp.limit
                           THEN Len(resp.seen) ELSE resp.limit
     /\ resp.limit = IF resp.route = "GET /energy" THEN LimitEnergy ELSE LimitAll
     /\ Descending(resp.result)
     /\ \A e \in Range(resp.seen) \ Range(resp.result) :
          \A i \in 1..Len(resp.result) :
            e.fields["timestamp"].v <= resp.result[i].fields["timestamp"].v

\* more samples than the limit: the later one returned, the earlier left out
C15_Witness ==
  /\ CountBounded
  /\ Len(resp.seen) > resp.limit
  /\ Len(resp.result) = resp.limit
  /\ \E e \in Range(resp.seen) \ Range(resp.result) :
       e.fields["timestamp"].v < resp.result[1].fields["timestamp"].v

\* place of a sample in the collection, in insertion order
Pos(e, st) == CHOOSE k \in 1..Len(st) : st[k] = e

\* C16: in a query result, samples with equal timestamps come in insertion
\* order, and a limit that cuts among them keeps the ones inserted first
C16_TiesInInsertionOrder ==
  (resp.status = 200 /\ resp.route \in {"GET /energy", "GET /energy/all"})
  => /\ \A i, j \in 1..Len(resp.result) :
          ( /\ i < j
            /\ resp.result[i].fields["timestamp"] = resp.result[j].fields["timestamp"] )
          => Pos(resp.result[i], resp.seen) < Pos(resp.result[j], resp.seen)
     /\ \A e \in Range(resp.seen) \ Range(resp.result) :
          \A i \in 1..Len(resp.result) :
            e.fields["timestamp"] = resp.result[i].fields["timestamp"]
            => Pos(resp.result[i], resp.seen) < Pos(e, resp.seen)

\* C17: a step that answers GET /energy, GET /energy/all or POST /chatbot
\* (with its read of the latest sample), with a result or with an error,
\* leaves the collection, the messages and the manual inserts as they were
C17_QueriesReadOnly ==
  [][resp' # resp => (store' = store /\ msgs' = msgs /\ posts' = posts)]_vars

\* a query answered 500 over a collection of two samples, both still there
C17_Witness ==
  /\ resp.n = 1
  /\ resp.status = 500
  /\ resp.route \in {"GET /energy", "GET /energy/all"}
  /\ Len(resp.seen) = 2
  /\ store = resp.seen

\* C18: the advisory reads a sample with the greatest timestamp, and for a
\* numeric gas level g its alert tier is high when g > 3000, middle when
\* 1000 < g <= 3000 and low when g <= 1000
C18_AlertTiers ==
  (resp.route = "POST /chatbot" /\ resp.latest # <<>>)
  => LET g == resp.latest[1].fields["gasDetected"]
     IN /\ resp.latest[1] \in Range(resp.seen)
        /\ \A e \in Range(resp.seen) :
             e.fields["timestamp"].v <= resp.latest[1].fields["timestamp"].v
        /\ g.k = "num"
           => /\ resp.tier = "high" <=> g.v > 3000
              /\ resp.tier = "middle" <=> (g.v > 1000 /\ g.v <= 3000)
              /\ resp.tier = "low" <=> g.v <= 1000

\* a latest sample at exactly 3000 put in the middle tier, with a sample at
\* exactly 1000 stored before it
C18_Witness ==
  /\ resp.route = "POST /chatbot"
  /\ resp.latest # <<>>
  /\ resp.latest[1].fields["gasDetected"] = Num(3000)
  /\ resp.tier = "middle"
  /\ \E e \in Range(resp.seen) :
       /\ e.fields["gasDetected"] = Num(1000)
       /\ e.fields["timestamp"].v < resp.latest[1].fields["timestamp"].v

\* C19: a question whose call to the text-generation API failed is answered
\* 200 with a local canned answer
C19_UpstreamFailureFallsBack ==
  (resp.route = "POST /chatbot" /\ resp.upstream = "error")
  => (resp.status = 200 /\ resp.answer = "local")

\* C20: a pending write holds back nothing but its own message: while any
\* write is pending the next message can be received, and every other
\* pending message with a valid document can be stored
C20_PendingWriteBlocksNoOther ==
  \A i \in 1..Len(msgs) :
    msgs[i].state = "Pending"
    => /\ Len(msgs) < MaxMsgs => ENABLED (\E m \in Payloads : Receive(m, 0))
       /\ \A j \in 1..Len(msgs) :
            (j # i /\ msgs[j].state = "Pending" /\ msgs[j].doc.errors = {})
            => ENABLED SaveResolves(j)

\* a later message received, derived and stored while the write of the
\* first is still pending
C20_Witness ==
  /\ Len(msgs) = 2
  /\ msgs[1].state = "Pending"
  /\ msgs[2].state = "Stored"
  /\ msgs[2].doc.fields["puissance"] = Num(6)
  /\ Len(store) = 1
  /\ store[1].origin = 2

\* the messages a shutdown at this moment loses: received, and neither
\* Stored nor Dropped
InFlight == {i \in 1..Len(msgs) : msgs[i].state \notin {"Stored", "Dropped"}}

\* C21 as claimed: at most one message is in flight at any moment
C21_AtMostOneInFlight == Cardinality(InFlight) <= 1

\* C21, amended: the messages in flight are those suspended at save(), as
\* many as were received while earlier writes were pending; each has its
\* document built and no sample yet, and every other message is out of
\* reach of a shutdown: its sample is in the collection, or it was dropped
\* and logged
C21_InFlightArePendingWrites ==
  \A i \in 1..Len(msgs) :
    /\ i \in InFlight
       => /\ msgs[i].state = "Pending"
          /\ msgs[i].cause = "none"
          /\ msgs[i].writes = 0
          /\ \A k \in 1..Len(store) : store[k].origin # i
    /\ i \notin InFlight
       => \/ /\ msgs[i].state = "Stored"
             /\ \E k \in 1..Len(store) :
                  store[k].origin = i /\ store[k].fields = msgs[i].doc.fields
          \/ msgs[i].state = "Dropped" /\ msgs[i].logged

\* two messages in flight at once, both with a document that would be stored
C21_Witness ==
  /\ Cardinality(InFlight) = 2
  /\ \A i \in InFlight : msgs[i].doc.errors = {}
  /\ store = <<>>

\* C22: no step of the pipeline, of a manual insert, of a query or of the
\* chatbot changes or removes a stored sample: the collection only grows at
\* its end
C22_AppendOnly ==
  [][/\ Len(store') >= Len(store)
     /\ \A k \in 1..Len(store) : store'[k] = store[k]]_vars

\* a sample of the pipeline seen by a query, still in its place after a
\* further message and a manual insert were stored behind it
C22_Witness ==
  /\ Len(store) = 3
  /\ resp.status = 200
  /\ Len(resp.seen) = 1
  /\ store[1] = resp.seen[1]
  /\ store[1].origin # 0
  /\ \E k \in 2..3 : store[k].post # 0

\* C23: the only topic ever subscribed is maison/energie, it is subscribed
\* once a connection was established without a subscription failure, every
\* subscription failure is logged, none leaves its handler, and after one the
\* HTTP routes still answer
C23_OneTopicFailureLogged ==
  /\ mqtt.topics \subseteq {Topic}
  /\ (mqtt.connects > 0 /\ mqtt.failed = 0) => mqtt.topics = {Topic}
  /\ mqtt.logged = mqtt.failed
  /\ escaped = 0
  /\ (mqtt.failed > 0 /\ HasGetEnergy(variant) /\ resp.n < MaxQueries)
     => ENABLED (\E q \in HoursParams, ok \in BOOLEAN : GetEnergy(q, ok))

\* what the derivation made of message i: the error thrown before a document
\* was built, the paths that failed their cast, or the fields derived
Derived(i) ==
  IF msgs[i].cause \in {"SyntaxError", "TypeError", "Error"}
  THEN [kind |-> "thrown", cause |-> msgs[i].cause, errors |-> {}, fields |-> EmptyObj]
  ELSE IF msgs[i].doc.errors # {}
  THEN [kind |-> "invalid", cause |-> "none", errors |-> msgs[i].doc.errors,
        fields |-> EmptyObj]
  ELSE [kind |-> "derived", cause |-> "none", errors |-> {},
        fields |-> msgs[i].doc.fields]

\* C24: two messages with the same payload, handled at the same clock
\* readings, are derived alike: the same puissance, delayMs and timestamp,
\* or the same rejection, whatever was handled or stored in between
C24_DerivationDeterministic ==
  \A i, j \in 1..Len(msgs) :
    (msgs[i].payload = msgs[j].payload /\ msgs[i].at = msgs[j].at)
    => Derived(i) = Derived(j)

\* the same reading handled twice at the same clock reading, both stored
\* with the same fields
C24_Witness ==
  /\ Len(msgs) = 2
  /\ msgs[1].payload = msgs[2].payload
  /\ msgs[1].at = msgs[2].at
  /\ Len(store) = 2
  /\ store[1].origin = 1
  /\ store[1].fields = store[2].fields
  /\ store[1].fields["puissance"] = Num(6)
  /\ store[1].fields["delayMs"].k = "num"

\* C25: a message is dropped only when it is no JSON object, when its
\* timestamp is present and unparsable, or when the database refused the
\* write; every other message is stored. (A sensor field or an _id that
\* fails its cast is left aside: the claim does not speak of them.)
C25_ThreeDropCauses ==
  \A i \in 1..Len(msgs) :
    (variant \in {"server", "part_002"} /\ CleanSensors(Data(i)))
    => /\ msgs[i].state = "Dropped"
          => \/ msgs[i].payload.kind # "object"
             \/ Data(i)["timestamp"] = NaS
             \/ msgs[i].cause = "StorageError"
       /\ ( /\ Terminal(i)
            /\ msgs[i].payload.kind = "object"
            /\ Data(i)["timestamp"] # NaS
            /\ msgs[i].cause # "StorageError" )
          => msgs[i].state = "Stored"

\* C26: a puissance or delayMs carried by the payload never reaches the
\* collection through the pipeline: the stored puissance is the product of the
\* sensor fields and the stored delayMs a clock reading of the handling minus
\* the sample's time, whatever the payload said
C26_PayloadNeverOverridesDerived ==
  \A k \in 1..Len(store) :
    LET i == store[k].origin
        f == Data(i)
        a == IF Present(f["sct013"]) THEN f["sct013"].v ELSE 0
        b == IF Present(f["voltage"]) THEN f["voltage"].v ELSE 0
        times == IF Present(f["timestamp"]) THEN {f["timestamp"].v}
                 ELSE msgs[i].reads
    IN i > 0
       => /\ Present(f["puissance"])
             => store[k].fields["puissance"] # f["puissance"]
          /\ Present(f["delayMs"])
             => store[k].fields["delayMs"] # f["delayMs"]
          /\ Derives(variant)
             => /\ store[k].fields["puissance"] = Num(a * b)
                /\ store[k].fields["delayMs"]
                     \in {Num(r - t) : r \in msgs[i].reads, t \in times}

\* a reading that carried both keys, stored with the derived values
C26_Witness ==
  /\ variant = "server"
  /\ \E k \in 1..Len(store) :
       /\ store[k].origin > 0
       /\ Data(store[k].origin)["puissance"] = Num(Supplied)
       /\ Data(store[k].origin)["delayMs"] = Num(Supplied)
       /\ store[k].fields["puissance"] = Num(6)
       /\ store[k].fields["delayMs"] = Num(now - Past)

\* C27: POST /energy with a key outside the sensor fields (timestamp,
\* puissance and delayMs among them) is answered 400 and stores nothing, so
\* every sample inserted by hand carries the timestamp the schema default
\* read from the clock when the request was handled, never one of the client
C27_UnknownKeyRejected ==
  /\ [](\A j \in 1..Len(posts) :
          (\E p \in Keys \ SensorKeys : posts[j].body[p] # Undefined)
          => /\ posts[j].state = "Done"
             /\ posts[j].status = 400
             /\ posts[j].writes = 0
             /\ FromPost(j) = {})
  /\ [](\A k \in 1..Len(store) :
          store[k].post # 0
          => /\ posts[store[k].post].body["timestamp"] = Undefined
             /\ store[k].fields["timestamp"]
                  = posts[store[k].post].doc.fields["timestamp"]
             /\ store[k].fields["timestamp"].k = "date"
             /\ store[k].fields["timestamp"].v \in StartClock..now)
  /\ [][\A j \in 1..Len(posts') :
          j > Len(posts)
          => /\ store' = store
             /\ posts'[j].state = "Pending"
                => posts'[j].doc.fields["timestamp"] = DateV(now)]_vars

\* a body with a sensor field and a timestamp refused while the collection
\* holds a sample of the pipeline
C27_Witness ==
  /\ Len(store) > 0
  /\ \E j \in 1..Len(posts) :
       /\ posts[j].body["timestamp"] = Num(Past)
       /\ posts[j].body["sct013"] = Num(2)
       /\ posts[j].status = 400
       /\ FromPost(j) = {}

\* C28: the advisory of the chatbot is computed from the stored sample with
\* the greatest timestamp, whatever the order of insertion: a latest sample
\* without gasDetected gets the low tier, and with no sample stored there is
\* no alert label
C28_AdvisoryFromLatest ==
  (resp.route = "POST /chatbot" /\ resp.limit = 1)
  => /\ resp.seen = <<>> => (resp.latest = <<>> /\ resp.tier = "none")
     /\ resp.seen # <<>>
        => /\ resp.latest # <<>>
           /\ resp.latest[1] \in Range(resp.seen)
           /\ \A e \in Range(resp.seen) :
                e.fields["timestamp"].v <= resp.latest[1].fields["timestamp"].v
           /\ resp.tier \in {"low", "middle", "high"}
           /\ ~Present(resp.latest[1].fields["gasDetected"])
              => resp.tier = "low"

\* the sample inserted first is the latest by timestamp: it has no gas level
\* and the advisory is the low tier
C28_Witness ==
  /\ resp.route = "POST /chatbot"
  /\ Len(resp.seen) = 2
  /\ resp.latest = <<resp.seen[1]>>
  /\ resp.seen[2].fields["timestamp"].v < resp.seen[1].fields["timestamp"].v
  /\ resp.seen[1].fields["gasDetected"] = Undefined
  /\ resp.tier = "low"

====
